---- MODULE Spec2Model ----
(***************************************************************************)
(* The batched sprite renderer of the sprite-sheet example                 *)
(* (src/009-sprite-sheet/src/main.ts): SpriteRenderer with its batch       *)
(* table, pipeline cache and vertex-buffer pool, driven frame by frame the *)
(* way main.draw drives it.                                                *)
(*                                                                         *)
(* One slot of a batch's vertexData stands for the FLOATS_PER_SPRITE       *)
(* floats of one quad.  The quad data of a call is identified by the       *)
(* call's ordinal within its frame (every call carries its own rect), and  *)
(* a slot that was never written holds 0, as a fresh Float32Array does.    *)
(***************************************************************************)
EXTENDS Integers, Sequences, FiniteSets, TLC

\* ---------------------------------------------------------------- bounds
MaxDraws == 4
MaxFrames == 2
\* source rectangles have coordinates in -1..MaxCoord, textures sides in 1..MaxDim
MaxCoord == 2
MaxDim == 3
\* the grid a quotient is rounded to: multiples of 1 / UvScale
UvScale == 16
\* a sprite-sheet descriptor lists at most MaxEntries SubTexture elements
MaxEntries == 2

\* ------------------------------------------------------ program constants
MAX_NUMBER_OF_SPRITES == 3
FLOAT_PER_VERTEX == 7
FLOATS_PER_SPRITE == 4 * FLOAT_PER_VERTEX
\* MAX_NUMBER_OF_SPRITES of the batching example
BATCHING_MAX_NUMBER_OF_SPRITES == 1000

\* The batch capacities the renderer is built with: the configured one and
\* the capacity 2 of the end-to-end scenario.
Capacities == {2, MAX_NUMBER_OF_SPRITES}

\* The textures handed to the renderer; a texture's id is its key in the
\* pipeline cache and in the batch table.
Textures == {"A", "B"}

TexId(texture) == texture

VARIABLES
  cap,                     \* the value MAX_NUMBER_OF_SPRITES was built with
  currentTexture,          \* SpriteRenderer.currentTexture ("null" or a texture)
  pipelinesPerTexture,     \* texture id -> SpritePipeline (NoPipeline: absent)
  batchDrawCallPerTexture, \* insertion-ordered entries [key, calls]
  allocatedVertexBuffers,  \* the pool: a sequence of buffer handles
  buffers,                 \* GPU memory: buffer handle -> contents
  passEncoder,             \* the draws recorded into the current render pass
  phase,                   \* "idle" (outside a frame) or "pass" (inside one)
  error,                   \* "none", or the exception that ended the loop
  calls,                   \* history: texture of each drawSpriteSource call of the frame
  frames,                  \* history: non-empty batches drawn by each frameEnd so far
  createLog,               \* history: [texture, frame] of each SpritePipeline.create call
  indexBuffer,             \* the contents of the shared index buffer (<<>>: not built)
  pc,                      \* where main and its draw callback stand
  log,                     \* history: the calls made by the current run of draw()
  uvArgs,                  \* a sourceRect and the size of the texture it is drawn from
  uvs,                     \* the texture coordinates computed from uvArgs (<<>>: not yet)
  packArgs,                \* a caller's drawRect and sourceRect objects and its texture's size
  packLog,                 \* history: the argument values of each drawSpriteSource call of the frame
  content,                 \* Content's four texture fields ("undefined" until loaded)
  sprites,                 \* Content.sprites: name -> Sprite (its Rects are heap addresses)
  heap,                    \* the Rect objects: address -> [x, y, width, height]
  descriptor,              \* sheet.xml as the parser delivers it
  loads,                   \* history: [field, ok] of each createTextureFromURL call
  consoleErrors,           \* history: the messages written with console.error
  playerSprite,            \* draw()'s local playerSprite
  shield,                  \* draw()'s local shield
  device                   \* main's local device ("undefined" until acquired)

rendererVars == <<cap, currentTexture, pipelinesPerTexture, batchDrawCallPerTexture,
                  allocatedVertexBuffers, buffers, passEncoder, phase, error, calls,
                  frames, createLog, indexBuffer>>

\* what the render loop never touches
contentVars == <<content, sprites, heap, descriptor, loads, consoleErrors>>

localVars == <<playerSprite, shield, device>>

\* what a render loop that draws textures directly never touches
outsideLoop == <<uvArgs, uvs, packArgs, packLog, contentVars, localVars>>

vars == <<rendererVars, pc, log, outsideLoop>>

\* ---------------------------------------------------------------- helpers
Ceil(n, d) == (n + d - 1) \div d

RECURSIVE SumSeq(_)
SumSeq(s) == IF s = <<>> THEN 0 ELSE Head(s) + SumSeq(Tail(s))

RECURSIVE MaxSeq(_)
MaxSeq(s) ==
  IF s = <<>> THEN 0
  ELSE LET m == MaxSeq(Tail(s)) IN IF Head(s) > m THEN Head(s) ELSE m

RECURSIVE Flatten(_)
Flatten(ss) == IF ss = <<>> THEN <<>> ELSE Head(ss) \o Flatten(Tail(ss))

SelectSeqIdx(s, Test(_)) ==
  LET F[i \in 0..Len(s)] ==
        IF i = 0 THEN <<>>
        ELSE IF Test(i) THEN Append(F[i - 1], i) ELSE F[i - 1]
  IN  F[Len(s)]

\* ------------------------------------------------------- SpritePipeline
NoPipeline == [id |-> 0, texture |-> "none"]

\* SpritePipeline.create: a new pipeline object with the texture's bind group.
SpritePipelineCreate(texture) == [id |-> Len(createLog) + 1, texture |-> texture]

\* if (!pipeline)
NeedsPipelineAlways(pipeline) == TRUE
NeedsPipeline(pipeline) == pipeline = NoPipeline

\* -------------------------------------------------------- BatchDrawCall
NewBatchDrawCall(pipeline) ==
  [pipeline |-> pipeline,
   vertexData |-> [s \in 1..cap |-> 0],
   instanceCount |-> 0]

\* batchDrawCall.instanceCount >= MAX_NUMBER_OF_SPRITES
SealedWhenAbove(instanceCount) == instanceCount > cap
Sealed(instanceCount) == instanceCount >= cap

\* arrayOfBatchCalls[arrayOfBatchCalls.length - 1]
FirstBatchIndex(arr) == 1
LastBatchIndex(arr) == Len(arr)

\* The 28 writes at offset i = instanceCount * FLOATS_PER_SPRITE and the
\* increment.  A write past the end of a Float32Array is dropped.
PackSpriteNoOffset(batch, quad) ==
  [batch EXCEPT !.vertexData = [@ EXCEPT ![1] = quad], !.instanceCount = @ + 1]

PackSprite(batch, quad) ==
  LET i == batch.instanceCount * FLOATS_PER_SPRITE
      slot == (i \div FLOATS_PER_SPRITE) + 1
      inRange == i + FLOATS_PER_SPRITE - 1 < cap * FLOATS_PER_SPRITE
  IN  [batch EXCEPT
         !.vertexData = IF inRange THEN [@ EXCEPT ![slot] = quad] ELSE @,
         !.instanceCount = @ + 1]

\* ----------------------------------------------------------- batch table
KeyIndex(table, id) ==
  IF \E k \in 1..Len(table) : table[k].key = id
  THEN CHOOSE k \in 1..Len(table) : table[k].key = id
  ELSE 0

HasKey(table, id) == KeyIndex(table, id) # 0

BatchesOf(table, id) ==
  IF HasKey(table, id) THEN table[KeyIndex(table, id)].calls ELSE <<>>

\* Texture ids are path-like strings, never canonical array indices ("0",
\* "1", ...), which a JavaScript object would enumerate first.
IsArrayIndexKey(id) == FALSE

\* for (const key in this.batchDrawCallPerTexture): array-index keys first,
\* then the other keys in the order they were created.
ForInOrder(table) ==
  SelectSeq(table, LAMBDA e : IsArrayIndexKey(e.key))
    \o SelectSeq(table, LAMBDA e : ~IsArrayIndexKey(e.key))

AllBatchesReversed(table) ==
  Flatten([k \in 1..Len(table) |-> table[Len(table) + 1 - k].calls])

\* the inner loop visiting each list from its newest batch to its oldest
AllBatchesNewestFirst(table) ==
  Flatten([k \in 1..Len(table) |->
    LET bs == ForInOrder(table)[k].calls
    IN  [j \in 1..Len(bs) |-> bs[Len(bs) + 1 - j]]])

\* every batch of the table, in the order frameEnd visits them
AllBatches(table) ==
  Flatten([k \in 1..Len(table) |-> ForInOrder(table)[k].calls])

\* ---------------------------------------------------------- index buffer
\* a value stored into a Uint8Array
Uint8(v) == v % 256

\* a value stored into a Uint16Array
Uint16(v) == v % 65536

\* setupIndexBuffer with the second triangle on the corners 1, 2, 3
SetupIndexBufferSecondTriangleShifted(n) ==
  [p \in 1..(n * 6) |->
     LET i == (p - 1) \div 6
         j == (p - 1) % 6
     IN  Uint16(i * 4 + <<0, 1, 2, 1, 2, 3>>[j + 1])]

\* setupIndexBuffer: for (let i = 0; i < MAX_NUMBER_OF_SPRITES; i++)
\* data[i * INIDICES_PER_SPRITE + j] = i * 4 + (0, 1, 2, 2, 3, 0 for j = 0..5);
\* position p of the array is element p + 1 of the sequence
SetupIndexBuffer(n) ==
  [p \in 1..(n * 6) |->
     LET i == (p - 1) \div 6
         j == (p - 1) % 6
     IN  Uint16(i * 4 + <<0, 1, 2, 2, 3, 0>>[j + 1])]

\* ------------------------------------------------------------------ Init
InitRenderer ==
  /\ cap \in Capacities
  /\ currentTexture = "null"
  /\ pipelinesPerTexture = [t \in Textures |-> NoPipeline]
  /\ batchDrawCallPerTexture = <<>>
  /\ allocatedVertexBuffers = <<>>
  /\ buffers = <<>>
  /\ passEncoder = <<>>
  /\ phase = "idle"
  /\ error = "none"
  /\ calls = <<>>
  /\ frames = <<>>
  /\ createLog = <<>>

\* ---------------------------------------------------------------- Content
\* A number is <<n>>, n counted in tenths, or <<>> for NaN.
NaN == <<>>
Num(n) == <<10 * n>>
Plus(a, tenths) == IF a = NaN THEN NaN ELSE <<a[1] + tenths>>

\* new Rect(x, y, width, height)
Rect(x, y, width, height) == [x |-> x, y |-> y, width |-> width, height |-> height]

\* An attribute of a SubTexture element is <<v>>, or <<>> when the element
\* lacks it (getAttribute returns null).
\* parseInt(subTexture.getAttribute(...)!)
ParseInt(attr) == IF attr = <<>> THEN NaN ELSE Num(attr[1])

\* the property key a name is stored under (null becomes "null")
PropertyKey(attr) == IF attr = <<>> THEN "null" ELSE attr[1]

Undefined == [texture |-> "undefined", drawRect |-> 0, sourceRect |-> 0]

\* Content.sprites[name]
Lookup(catalog, name) ==
  IF name \in DOMAIN catalog THEN catalog[name] ELSE Undefined

\* The body of the forEach of loadSpriteSheet: two new Rects, one new Sprite.
AddSpriteAtSourcePosition(st, subTexture, texture) ==
  LET x == ParseInt(subTexture.x)
      y == ParseInt(subTexture.y)
      width == ParseInt(subTexture.width)
      height == ParseInt(subTexture.height)
      sprite == [texture |-> texture,
                 drawRect |-> Len(st.heap) + 1,
                 sourceRect |-> Len(st.heap) + 2]
  IN  [heap |-> st.heap \o <<Rect(x, y, width, height), Rect(x, y, width, height)>>,
       sprites |-> (PropertyKey(subTexture.name) :> sprite) @@ st.sprites]

AddSprite(st, subTexture, texture) ==
  LET name == PropertyKey(subTexture.name)
      x == ParseInt(subTexture.x)
      y == ParseInt(subTexture.y)
      width == ParseInt(subTexture.width)
      height == ParseInt(subTexture.height)
      drawRect == Rect(Num(0), Num(0), width, height)
      sourceRect == Rect(x, y, width, height)
      sprite == [texture |-> texture,
                 drawRect |-> Len(st.heap) + 1,
                 sourceRect |-> Len(st.heap) + 2]
  IN  [heap |-> st.heap \o <<drawRect, sourceRect>>,
       sprites |-> (name :> sprite) @@ st.sprites]

RECURSIVE AddSprites(_, _, _)
AddSprites(st, subTextures, texture) ==
  IF subTextures = <<>> THEN st
  ELSE AddSprites(AddSprite(st, Head(subTextures), texture), Tail(subTextures), texture)

\* The SubTexture elements a sheet can hold.
SubTextures ==
  {[name |-> <<"playerShip1_blue.png">>, x |-> <<1>>, y |-> <<0>>,
    width |-> <<2>>, height |-> <<1>>],
   [name |-> <<"shield1.png">>, x |-> <<256>>, y |-> <<0>>,
    width |-> <<32>>, height |-> <<32>>],
   [name |-> <<"shield1.png">>, x |-> <<0>>, y |-> <<3>>,
    width |-> <<1>>, height |-> <<1>>],
   [name |-> <<"shield1.png">>, x |-> <<>>, y |-> <<0>>,
    width |-> <<32>>, height |-> <<32>>],
   [name |-> <<>>, x |-> <<4>>, y |-> <<4>>,
    width |-> <<1>>, height |-> <<1>>]}

\* sheet.xml: whether the parser reported an error, and the SubTexture
\* elements querySelectorAll finds in the document it returned
Descriptors ==
  [parseError : BOOLEAN,
   subTextures : UNION {[1..n -> SubTextures] : n \in 0..MaxEntries}]

NothingLoaded ==
  [playerTexture |-> "undefined", ufoRedTexture |-> "undefined",
   uvTexture |-> "undefined", spriteSheet |-> "undefined"]

\* the Texture each field receives; A and B are the two handed to the renderer
TextureOf(field) ==
  CASE field = "spriteSheet" -> "A"
    [] field = "uvTexture" -> "B"
    [] field = "playerTexture" -> "P"
    [] field = "ufoRedTexture" -> "U"

EmptySheet == [parseError |-> FALSE, subTextures |-> <<>>]

\* the render loop is about to run draw() for the first time, with the four
\* textures loaded; the loop of this specification draws textures directly
\* and does not use the catalog
Init ==
  /\ InitRenderer
  /\ pc = "draw"
  /\ log = <<>>
  /\ uvArgs = <<>>
  /\ uvs = <<>>
  /\ packArgs = <<>>
  /\ packLog = <<>>
  /\ content = [f \in DOMAIN NothingLoaded |-> TextureOf(f)]
  /\ sprites = <<>>
  /\ heap = <<>>
  /\ descriptor = EmptySheet
  /\ loads = <<>>
  /\ consoleErrors = <<>>
  /\ playerSprite = Undefined
  /\ shield = Undefined
  /\ device = "GPUDevice"
  /\ indexBuffer = SetupIndexBuffer(cap)

\* ------------------------------------------------------------- framePass
FramePassKeepsTable ==
  /\ phase = "idle"
  /\ error = "none"
  /\ Len(frames) < MaxFrames
  /\ phase' = "pass"
  /\ passEncoder' = <<>>
  /\ currentTexture' = "null"
  /\ calls' = <<>>
  /\ UNCHANGED <<cap, pipelinesPerTexture, batchDrawCallPerTexture,
                 allocatedVertexBuffers, buffers, error, frames, createLog,
                 indexBuffer>>

FramePass ==
  /\ phase = "idle"
  /\ error = "none"
  /\ Len(frames) < MaxFrames
  /\ phase' = "pass"
  /\ passEncoder' = <<>>
  /\ batchDrawCallPerTexture' = <<>>
  /\ currentTexture' = "null"
  /\ calls' = <<>>
  /\ UNCHANGED <<cap, pipelinesPerTexture, allocatedVertexBuffers, buffers,
                 error, frames, createLog, indexBuffer>>

\* --------------------------------------------------- texture coordinates
\* a / b as the number format holds it: the nearest multiple of 1 / UvScale,
\* in units of 1 / UvScale (b > 0)
Quotient(a, b) == (2 * a * UvScale + b) \div (2 * b)

\* let u0 = ..., v0 = ..., u1 = ..., v1 = ... of drawSpriteSource
TexCoordsSwappedSides(sourceRect, size) ==
  [u0 |-> Quotient(sourceRect.x, size.height),
   v0 |-> Quotient(sourceRect.y, size.width),
   u1 |-> Quotient(sourceRect.x + sourceRect.width, size.height),
   v1 |-> Quotient(sourceRect.y + sourceRect.height, size.width)]

TexCoords(sourceRect, size) ==
  [u0 |-> Quotient(sourceRect.x, size.width),
   v0 |-> Quotient(sourceRect.y, size.height),
   u1 |-> Quotient(sourceRect.x + sourceRect.width, size.width),
   v1 |-> Quotient(sourceRect.y + sourceRect.height, size.height)]

\* ------------------------------------------ vertexData float by float
\* Here a batch's vertexData is the Float32Array itself, one element per
\* float.  Positions are counted in tenths of a pixel, texture coordinates
\* in 1 / UvScale; an element holds the number stored into it.

\* private defaultColor = new Color()
DefaultColor == [r |-> 1, g |-> 1, b |-> 1]

\* The color argument is <<c>>, or <<>> when the call passes none.
\* color: Color = this.defaultColor
ColorParameter(color) == IF color = <<>> THEN DefaultColor ELSE color[1]

\* new BatchDrawCall(pipeline)
NewFloatBatchDrawCall(pipeline) ==
  [pipeline |-> pipeline,
   vertexData |-> [p \in 1..(cap * FLOATS_PER_SPRITE) |-> 0],
   instanceCount |-> 0]

\* the 28 values with top right and bottom left exchanged
QuadFloatsSwappedCorners(rect, uv, color) ==
  << rect.x, rect.y, uv.u0, uv.v0, color.r, color.g, color.b,
     rect.x, rect.y + rect.height, uv.u0, uv.v1, color.r, color.g, color.b,
     rect.x + rect.width, rect.y + rect.height, uv.u1, uv.v1,
       color.r, color.g, color.b,
     rect.x + rect.width, rect.y, uv.u1, uv.v0, color.r, color.g, color.b >>

\* the 28 values drawSpriteSource stores, in the order of their offsets 0..27
QuadFloats(rect, uv, color) ==
  << rect.x, rect.y, uv.u0, uv.v0, color.r, color.g, color.b,
     rect.x + rect.width, rect.y, uv.u1, uv.v0, color.r, color.g, color.b,
     rect.x + rect.width, rect.y + rect.height, uv.u1, uv.v1,
       color.r, color.g, color.b,
     rect.x, rect.y + rect.height, uv.u0, uv.v1, color.r, color.g, color.b >>

\* the stores all going to the offsets 0..27
StoreFloatsAtStart(vertexData, i, floats) ==
  [p \in 1..Len(vertexData) |->
     IF p <= Len(floats) THEN floats[p] ELSE vertexData[p]]

\* vertexData[j + i] = floats[j] for j in 0..27; offset j + i is element
\* j + i + 1 of the sequence, and a store past the end is dropped
StoreFloats(vertexData, i, floats) ==
  [p \in 1..Len(vertexData) |->
     IF i < p /\ p <= i + Len(floats) THEN floats[p - i] ELSE vertexData[p]]

\* let i = instanceCount * FLOATS_PER_SPRITE; the stores; instanceCount++
PackFloats(batch, rect, sourceRect, size, color) ==
  LET i == batch.instanceCount * FLOATS_PER_SPRITE
  IN  [batch EXCEPT
         !.vertexData = StoreFloats(@, i, QuadFloats(rect, TexCoords(sourceRect, size), color)),
         !.instanceCount = @ + 1]

\* ------------------------------------------------------ drawSpriteSource
\* What a call stores is given as sprite: the quad's ordinal, one slot of
\* vertexData standing for its 28 floats, or the arguments the floats are
\* computed from.
QuadSprite(quad) == [floats |-> FALSE, quad |-> quad]

FloatSprite(rect, sourceRect, size, color) ==
  [floats |-> TRUE, rect |-> rect, sourceRect |-> sourceRect, size |-> size,
   color |-> color]

\* new BatchDrawCall(pipeline), its vertexData at the sprite's level of detail
NewBatchFor(pipeline, sprite) ==
  IF sprite.floats THEN NewFloatBatchDrawCall(pipeline) ELSE NewBatchDrawCall(pipeline)

\* the 28 stores and instanceCount++
PackFor(batch, sprite) ==
  IF sprite.floats
  THEN PackFloats(batch, sprite.rect, sprite.sourceRect, sprite.size, sprite.color)
  ELSE PackSprite(batch, sprite.quad)

DrawSpriteInto(texture, sprite) ==
  LET id == TexId(texture)
      switched == currentTexture # texture
      create == switched /\ NeedsPipeline(pipelinesPerTexture[id])
      pipes == IF create
               THEN [pipelinesPerTexture EXCEPT ![id] = SpritePipelineCreate(texture)]
               ELSE pipelinesPerTexture
      table1 == IF switched /\ ~HasKey(batchDrawCallPerTexture, id)
                THEN Append(batchDrawCallPerTexture, [key |-> id, calls |-> <<>>])
                ELSE batchDrawCallPerTexture
      k == KeyIndex(table1, id)
      arr1 == table1[k].calls
      arr2 == IF Len(arr1) = 0
              THEN Append(arr1, NewBatchFor(pipes[id], sprite))
              ELSE arr1
      last == LastBatchIndex(arr2)
      packed == PackFor(arr2[last], sprite)
      arr3 == [arr2 EXCEPT ![last] = packed]
      arr4 == IF Sealed(packed.instanceCount)
              THEN Append(arr3, NewBatchFor(pipes[id], sprite))
              ELSE arr3
  IN  /\ phase = "pass"
      /\ error = "none"
      /\ Len(calls) < MaxDraws
      /\ currentTexture' = texture
      /\ pipelinesPerTexture' = pipes
      /\ createLog' = IF create
                      THEN Append(createLog, [texture |-> id, frame |-> Len(frames) + 1])
                      ELSE createLog
      /\ calls' = Append(calls, texture)
      /\ IF k = 0
         THEN \* arrayOfBatchCalls is undefined: reading .length throws
              /\ error' = "TypeError"
              /\ batchDrawCallPerTexture' = table1
         ELSE /\ error' = error
              /\ batchDrawCallPerTexture' = [table1 EXCEPT ![k].calls = arr4]
      /\ UNCHANGED <<cap, allocatedVertexBuffers, buffers, passEncoder, phase,
                     frames, indexBuffer>>

\* drawSpriteSource with one slot of vertexData standing for one quad
DrawSpriteSource(texture) ==
  DrawSpriteInto(texture, QuadSprite(Len(calls) + 1))

\* -------------------------------------------------------------- frameEnd
\* if (batchDrawCall.instanceCount == 0) continue;
SkipNever(batch) == FALSE
SkipBatch(batch) == batch.instanceCount = 0

\* the final loop: every used buffer is pushed back onto the pool
ReturnNone(pool, used) == pool
ReturnToPool(pool, used) == pool \o used

\* let vertexBuffer = this.allocatedVertexBuffers.pop(); if (!vertexBuffer)
NeverReuse(pool) == FALSE
CanReuse(pool) == pool # <<>>

\* the double loop's body reading the pool's last buffer without popping it
DrawBatchLeavingBufferInPool(st, batch) ==
  LET reuse == CanReuse(st.pool)
      vertexBuffer == IF reuse THEN st.pool[Len(st.pool)] ELSE Len(st.buffers) + 1
  IN  [pool |-> st.pool,
       buffers |-> IF reuse
                   THEN [st.buffers EXCEPT ![vertexBuffer] = batch.vertexData]
                   ELSE Append(st.buffers, batch.vertexData),
       used |-> Append(st.used, vertexBuffer),
       encoder |-> Append(st.encoder,
                     [pipeline |-> batch.pipeline.id,
                      indexBuffer |-> "indexBuffer",
                      vertexBuffer |-> vertexBuffer,
                      bindGroup0 |-> "projectionView",
                      bindGroup1 |-> batch.pipeline.texture,
                      indexCount |-> 6 * batch.instanceCount])]

\* One batch of the double loop: take a buffer (pop, or create), fill it,
\* bind and draw.
DrawBatch(st, batch) ==
  LET reuse == CanReuse(st.pool)
      vertexBuffer == IF reuse THEN st.pool[Len(st.pool)] ELSE Len(st.buffers) + 1
  IN  [pool |-> IF reuse THEN SubSeq(st.pool, 1, Len(st.pool) - 1) ELSE st.pool,
       buffers |-> IF reuse
                   THEN [st.buffers EXCEPT ![vertexBuffer] = batch.vertexData]
                   ELSE Append(st.buffers, batch.vertexData),
       used |-> Append(st.used, vertexBuffer),
       encoder |-> Append(st.encoder,
                     [pipeline |-> batch.pipeline.id,
                      indexBuffer |-> "indexBuffer",
                      vertexBuffer |-> vertexBuffer,
                      bindGroup0 |-> "projectionView",
                      bindGroup1 |-> batch.pipeline.texture,
                      indexCount |-> 6 * batch.instanceCount])]

RECURSIVE FrameEndLoop(_, _)
FrameEndLoop(batches, st) ==
  IF batches = <<>> THEN st
  ELSE IF SkipBatch(Head(batches)) THEN FrameEndLoop(Tail(batches), st)
  ELSE FrameEndLoop(Tail(batches), DrawBatch(st, Head(batches)))

\* frameEnd emptying the batch table once its batches are drawn
FrameEndClearingTable ==
  LET st == FrameEndLoop(AllBatches(batchDrawCallPerTexture),
                         [pool |-> allocatedVertexBuffers, buffers |-> buffers,
                          used |-> <<>>, encoder |-> passEncoder])
  IN  /\ phase = "pass"
      /\ error = "none"
      /\ phase' = "idle"
      /\ allocatedVertexBuffers' = ReturnToPool(st.pool, st.used)
      /\ buffers' = st.buffers
      /\ passEncoder' = st.encoder
      /\ frames' = Append(frames, Len(st.used))
      /\ batchDrawCallPerTexture' = <<>>
      /\ UNCHANGED <<cap, currentTexture, pipelinesPerTexture, error, calls,
                     createLog, indexBuffer>>

FrameEnd ==
  LET st == FrameEndLoop(AllBatches(batchDrawCallPerTexture),
                         [pool |-> allocatedVertexBuffers, buffers |-> buffers,
                          used |-> <<>>, encoder |-> passEncoder])
  IN  /\ phase = "pass"
      /\ error = "none"
      /\ phase' = "idle"
      /\ allocatedVertexBuffers' = ReturnToPool(st.pool, st.used)
      /\ buffers' = st.buffers
      /\ passEncoder' = st.encoder
      /\ frames' = Append(frames, Len(st.used))
      /\ UNCHANGED <<cap, currentTexture, pipelinesPerTexture,
                     batchDrawCallPerTexture, error, calls, createLog,
                     indexBuffer>>

\* ------------------------------------------------------------ main.draw
\* The draw callback, call by call.  A renderer call that throws ends the
\* callback there: nothing after it runs.
AfterCall(next) == IF error' = "none" THEN next ELSE "halted"

\* createCommandEncoder, beginRenderPass
BeginRenderPass ==
  /\ pc = "draw"
  /\ Len(frames) < MaxFrames
  /\ pc' = "encoding"
  /\ log' = <<"beginRenderPass">>
  /\ UNCHANGED outsideLoop
  /\ UNCHANGED rendererVars

\* spriteRenderer.framePass(passEncoder)
CallFramePass ==
  /\ pc = "encoding"
  /\ FramePass
  /\ pc' = "framed"
  /\ log' = Append(log, "framePass")
  /\ UNCHANGED outsideLoop

\* spriteRenderer.drawSpriteSource(...), any number of times
CallDrawSpriteSource(texture) ==
  /\ pc = "framed"
  /\ DrawSpriteSource(texture)
  /\ pc' = AfterCall("framed")
  /\ log' = Append(log, "drawSpriteSource")
  /\ UNCHANGED outsideLoop

\* spriteRenderer.frameEnd()
CallFrameEnd ==
  /\ pc = "framed"
  /\ FrameEnd
  /\ pc' = "frameEnded"
  /\ log' = Append(log, "frameEnd")
  /\ UNCHANGED outsideLoop

\* passEncoder.end()
PassEnd ==
  /\ pc = "frameEnded"
  /\ pc' = "passEnded"
  /\ log' = Append(log, "end")
  /\ UNCHANGED outsideLoop
  /\ UNCHANGED rendererVars

\* device.queue.submit([commandEncoder.finish()])
SubmitBeforePassEnd ==
  /\ pc = "frameEnded"
  /\ pc' = "submitted"
  /\ log' = Append(log, "submit")
  /\ UNCHANGED outsideLoop
  /\ UNCHANGED rendererVars

Submit ==
  /\ pc = "passEnded"
  /\ pc' = "submitted"
  /\ log' = Append(log, "submit")
  /\ UNCHANGED outsideLoop
  /\ UNCHANGED rendererVars

\* window.requestAnimationFrame(() => draw())
RequestAnimationFrame ==
  /\ pc = "submitted"
  /\ pc' = "draw"
  /\ log' = Append(log, "requestAnimationFrame")
  /\ UNCHANGED outsideLoop
  /\ UNCHANGED rendererVars

\* ------------------------------------ texture coordinates of any rectangle
Rects == [x : -1..MaxCoord, y : -1..MaxCoord, width : -1..MaxCoord, height : -1..MaxCoord]

TextureSizes == [width : 1..MaxDim, height : 1..MaxDim]

InitUV ==
  /\ InitRenderer
  /\ pc = "draw"
  /\ log = <<>>
  /\ uvArgs \in [sourceRect : Rects, size : TextureSizes]
  /\ uvs = <<>>
  /\ packArgs = <<>>
  /\ packLog = <<>>
  /\ content = [f \in DOMAIN NothingLoaded |-> TextureOf(f)]
  /\ sprites = <<>>
  /\ heap = <<>>
  /\ descriptor = EmptySheet
  /\ loads = <<>>
  /\ consoleErrors = <<>>
  /\ playerSprite = Undefined
  /\ shield = Undefined
  /\ device = "GPUDevice"
  /\ indexBuffer = SetupIndexBuffer(cap)

ComputeTexCoords ==
  /\ uvs = <<>>
  /\ uvs' = TexCoords(uvArgs.sourceRect, uvArgs.size)
  /\ UNCHANGED <<rendererVars, pc, log, uvArgs, packArgs, packLog, contentVars,
                 localVars>>

SpecUV == InitUV /\ [][ComputeTexCoords]_vars

\* ------------------------------------------------------------------ Next
Next ==
  \/ BeginRenderPass
  \/ CallFramePass
  \/ \E texture \in Textures : CallDrawSpriteSource(texture)
  \/ CallFrameEnd
  \/ PassEnd
  \/ Submit
  \/ RequestAnimationFrame

Spec == Init /\ [][Next]_vars

\* ------------------------------------------------ main of the sprite sheet
\* the renderer's variables but error
rendererState == <<cap, currentTexture, pipelinesPerTexture,
                   batchDrawCallPerTexture, allocatedVertexBuffers, buffers,
                   passEncoder, phase, calls, frames, createLog, indexBuffer>>

\* the awaited steps of main and Content.initialize, in program order
StartupSteps ==
  <<"initializeGpu", "playerTexture", "ufoRedTexture", "uvTexture",
    "spriteSheet", "loadSpriteSheet", "createRenderer", "draw">>

\* main going from initializeGpu straight on to the renderer
StepAfterWithoutContent(step) ==
  IF step = "initializeGpu" THEN "createRenderer"
  ELSE StartupSteps[1 + CHOOSE i \in 1..Len(StartupSteps) : StartupSteps[i] = step]

StepAfter(step) ==
  StartupSteps[1 + CHOOSE i \in 1..Len(StartupSteps) : StartupSteps[i] = step]

TextureFields == {"playerTexture", "ufoRedTexture", "uvTexture", "spriteSheet"}

\* main is at its first statement; sheet.xml is whatever was bundled
InitApp ==
  /\ InitRenderer
  /\ pc = "initializeGpu"
  /\ log = <<>>
  /\ uvArgs = <<>>
  /\ uvs = <<>>
  /\ packArgs = <<>>
  /\ packLog = <<>>
  /\ content = NothingLoaded
  /\ sprites = <<>>
  /\ heap = <<>>
  /\ descriptor \in Descriptors
  /\ loads = <<>>
  /\ consoleErrors = <<>>
  /\ playerSprite = Undefined
  /\ shield = Undefined
  /\ device = "undefined"
  /\ indexBuffer = <<>>

\* const { device, context, canvas } = await initializeGpu();
InitializeGpu(outcome) ==
  /\ pc = "initializeGpu"
  /\ CASE outcome = "ok" ->
            /\ pc' = StepAfter(pc)
            /\ UNCHANGED <<error, consoleErrors>>
       [] outcome = "noContext" ->
            \* initializeGpu returns undefined; destructuring it throws
            /\ consoleErrors' = Append(consoleErrors, "WebGPU not supported")
            /\ error' = "TypeError"
            /\ pc' = "halted"
       [] outcome = "noAdapter" ->
            /\ error' = "No adapter found"
            /\ pc' = "halted"
            /\ UNCHANGED consoleErrors
  /\ device' = IF outcome = "ok" THEN "GPUDevice" ELSE device
  /\ UNCHANGED <<rendererState, log, uvArgs, uvs, packArgs, packLog,
                 content, sprites, heap,
                 descriptor, loads, playerSprite, shield>>

\* where Content.initialize continues after a createTextureFromURL settled
AfterLoadIgnoringRejection(ok, next) == next

AfterLoad(ok, next) == IF ok THEN next ELSE "halted"

\* this.<field> = await createTextureFromURL(device, url)
LoadTexture(ok) ==
  /\ pc \in TextureFields
  /\ loads' = Append(loads, [field |-> pc, ok |-> ok])
  /\ pc' = AfterLoad(ok, StepAfter(pc))
  /\ IF ok
     THEN /\ content' = [content EXCEPT ![pc] = TextureOf(pc)]
          /\ UNCHANGED <<error, consoleErrors>>
     ELSE \* image.onerror: console.error, reject()
          /\ consoleErrors' = Append(consoleErrors, "Failed to load image")
          /\ error' = "rejected"
          /\ UNCHANGED content
  /\ UNCHANGED <<rendererState, log, uvArgs, uvs, packArgs, packLog,
                 sprites, heap, descriptor,
                 localVars>>

\* await this.loadSpriteSheet()
LoadSpriteSheet ==
  /\ pc = "loadSpriteSheet"
  /\ LET st == AddSprites([heap |-> heap, sprites |-> sprites],
                          descriptor.subTextures, content.spriteSheet)
     IN  /\ heap' = st.heap
         /\ sprites' = st.sprites
  /\ pc' = StepAfter(pc)
  /\ UNCHANGED <<rendererVars, log, uvArgs, uvs, packArgs, packLog,
                 content, descriptor, loads,
                 consoleErrors, localVars>>

\* new SpriteRenderer(...), spriteRenderer.initialize(), draw()
CreateRenderer ==
  /\ pc = "createRenderer"
  /\ indexBuffer' = SetupIndexBuffer(cap)
  /\ pc' = StepAfter(pc)
  /\ UNCHANGED <<cap, currentTexture, pipelinesPerTexture,
                 batchDrawCallPerTexture, allocatedVertexBuffers, buffers,
                 passEncoder, phase, error, calls, frames, createLog, log,
                 outsideLoop>>

\* const playerSprite = Content.sprites["playerShip1_blue.png"];
LookupPlayer ==
  /\ pc = "framed"
  /\ playerSprite' = Lookup(sprites, "playerShip1_blue.png")
  /\ pc' = "playerLookedUp"
  /\ UNCHANGED <<rendererVars, log, uvArgs, uvs, packArgs, packLog,
                 contentVars, shield, device>>

\* reading a property of undefined throws out of draw()
ThrowTypeError ==
  /\ error' = "TypeError"
  /\ pc' = "halted"
  /\ UNCHANGED <<rendererState, log, outsideLoop>>

\* playerSprite.drawRect.x += 0.7; playerSprite.drawRect.y += 0.7;
\* spriteRenderer.drawSpriteSource(playerSprite.texture, ...)
DrawPlayer ==
  /\ pc = "playerLookedUp"
  /\ IF playerSprite = Undefined
     THEN ThrowTypeError
     ELSE LET r == heap[playerSprite.drawRect]
          IN  /\ heap' = [heap EXCEPT ![playerSprite.drawRect] =
                            [r EXCEPT !.x = Plus(r.x, 7), !.y = Plus(r.y, 7)]]
              /\ DrawSpriteSource(playerSprite.texture)
              /\ pc' = AfterCall("playerDrawn")
              /\ log' = Append(log, "drawSpriteSource")
              /\ UNCHANGED <<uvArgs, uvs, packArgs, packLog, content, sprites, descriptor, loads,
                             consoleErrors, localVars>>

\* const shield = Content.sprites["shield1.png"];
LookupShield ==
  /\ pc = "playerDrawn"
  /\ shield' = Lookup(sprites, "shield1.png")
  /\ pc' = "shieldLookedUp"
  /\ UNCHANGED <<rendererVars, log, uvArgs, uvs, packArgs, packLog,
                 contentVars, playerSprite, device>>

\* shield.drawRect.x = playerSprite.drawRect.x - 13;
\* shield.drawRect.y = playerSprite.drawRect.y - 12;
\* spriteRenderer.drawSpriteSource(shield.texture, ...)
DrawShield ==
  /\ pc = "shieldLookedUp"
  /\ IF shield = Undefined
     THEN ThrowTypeError
     ELSE LET r == heap[shield.drawRect]
              p == heap[playerSprite.drawRect]
          IN  /\ heap' = [heap EXCEPT ![shield.drawRect] =
                            [r EXCEPT !.x = Plus(p.x, -130), !.y = Plus(p.y, -120)]]
              /\ DrawSpriteSource(shield.texture)
              /\ pc' = AfterCall("shieldDrawn")
              /\ log' = Append(log, "drawSpriteSource")
              /\ UNCHANGED <<uvArgs, uvs, packArgs, packLog, content, sprites, descriptor, loads,
                             consoleErrors, localVars>>

\* spriteRenderer.drawSpriteSource(Content.uvTexture, drawRect, sourceRect)
DrawUvQuad ==
  /\ pc = "shieldDrawn"
  /\ DrawSpriteSource(content.uvTexture)
  /\ pc' = AfterCall("uvDrawn")
  /\ log' = Append(log, "drawSpriteSource")
  /\ UNCHANGED outsideLoop

\* spriteRenderer.frameEnd()
AppFrameEnd ==
  /\ pc = "uvDrawn"
  /\ FrameEnd
  /\ pc' = "frameEnded"
  /\ log' = Append(log, "frameEnd")
  /\ UNCHANGED outsideLoop

NextApp ==
  \/ \E outcome \in {"ok", "noContext", "noAdapter"} : InitializeGpu(outcome)
  \/ \E ok \in BOOLEAN : LoadTexture(ok)
  \/ LoadSpriteSheet
  \/ CreateRenderer
  \/ BeginRenderPass
  \/ CallFramePass
  \/ LookupPlayer
  \/ DrawPlayer
  \/ LookupShield
  \/ DrawShield
  \/ DrawUvQuad
  \/ AppFrameEnd
  \/ PassEnd
  \/ Submit
  \/ RequestAnimationFrame

SpecApp == InitApp /\ [][NextApp]_vars

\* ------------------------------------- the batching example (part_000)
\* Its SpriteRenderer differs from the sprite-sheet one in framePass, which
\* leaves currentTexture as it is, and in the name and the arguments of
\* drawSprite; its draw() has the same sequence of calls.

\* framePass of the batching example
BatchingFramePass ==
  /\ phase = "idle"
  /\ error = "none"
  /\ Len(frames) < MaxFrames
  /\ phase' = "pass"
  /\ passEncoder' = <<>>
  /\ batchDrawCallPerTexture' = <<>>
  /\ calls' = <<>>
  /\ UNCHANGED <<cap, currentTexture, pipelinesPerTexture, allocatedVertexBuffers,
                 buffers, error, frames, createLog, indexBuffer>>

\* drawSprite of the batching example
DrawSprite(texture) ==
  DrawSpriteInto(texture, QuadSprite(Len(calls) + 1))

\* spriteRenderer.framePass(passEncoder)
CallBatchingFramePass ==
  /\ pc = "encoding"
  /\ BatchingFramePass
  /\ pc' = "framed"
  /\ log' = Append(log, "framePass")
  /\ UNCHANGED outsideLoop

\* spriteRenderer.drawSprite(...), any number of times
CallDrawSprite(texture) ==
  /\ pc = "framed"
  /\ DrawSprite(texture)
  /\ pc' = AfterCall("framed")
  /\ log' = Append(log, "drawSprite")
  /\ UNCHANGED outsideLoop

NextBatching ==
  \/ BeginRenderPass
  \/ CallBatchingFramePass
  \/ \E texture \in Textures : CallDrawSprite(texture)
  \/ CallFrameEnd
  \/ PassEnd
  \/ Submit
  \/ RequestAnimationFrame

SpecBatching == Init /\ [][NextBatching]_vars

\* --------------------------------------- the renderer, float by float
\* the caller's Rect objects and the size of the textures it draws from
PackInputs ==
  [drawRect : {Rect(0, 30, 20, 10)},
   sourceRect : {Rect(1, 0, 1, 1), Rect(0, 1, 2, 1)},
   size : {[width |-> 3, height |-> 2]}]

\* the caller passes a color with every second call, as draw() does
ColorOfCall(q) == IF q % 2 = 0 THEN <<[r |-> 0, g |-> 0, b |-> 1]>> ELSE <<>>

InitPack ==
  /\ InitRenderer
  /\ pc = "draw"
  /\ log = <<>>
  /\ uvArgs = <<>>
  /\ uvs = <<>>
  /\ packArgs \in PackInputs
  /\ packLog = <<>>
  /\ content = [f \in DOMAIN NothingLoaded |-> TextureOf(f)]
  /\ sprites = <<>>
  /\ heap = <<>>
  /\ descriptor = EmptySheet
  /\ loads = <<>>
  /\ consoleErrors = <<>>
  /\ playerSprite = Undefined
  /\ shield = Undefined
  /\ device = "GPUDevice"
  /\ indexBuffer = SetupIndexBuffer(cap)

\* spriteRenderer.framePass(passEncoder)
PackFramePass ==
  /\ FramePass
  /\ packLog' = <<>>
  /\ UNCHANGED <<pc, log, uvArgs, uvs, packArgs, contentVars, localVars>>

\* spriteRenderer.drawSpriteSource(texture, drawRect, sourceRect[, color]),
\* up to one call more than a batch holds
PackDrawSpriteSource(texture) ==
  LET color == ColorOfCall(Len(calls) + 1)
  IN  /\ Len(calls) < cap + 1
      /\ DrawSpriteInto(texture, FloatSprite(packArgs.drawRect, packArgs.sourceRect,
                                              packArgs.size, ColorParameter(color)))
      /\ packLog' = Append(packLog,
                      [texture |-> texture, rect |-> packArgs.drawRect,
                       sourceRect |-> packArgs.sourceRect, size |-> packArgs.size,
                       color |-> color])
      /\ UNCHANGED <<pc, log, uvArgs, uvs, packArgs, contentVars, localVars>>

\* drawRect.x += 0.7; drawRect.y += 0.7; at most once per frame, at any time
MoveRect ==
  /\ error = "none"
  /\ packArgs.drawRect.x < 7 * (Len(frames) + 1)
  /\ packArgs' = [packArgs EXCEPT !.drawRect.x = @ + 7, !.drawRect.y = @ + 7]
  /\ UNCHANGED <<rendererVars, pc, log, uvArgs, uvs, packLog, contentVars,
                 localVars>>

\* spriteRenderer.frameEnd()
PackFrameEnd ==
  /\ FrameEnd
  /\ UNCHANGED <<pc, log, outsideLoop>>

NextPack ==
  \/ PackFramePass
  \/ PackDrawSpriteSource(content.spriteSheet)
  \/ MoveRect
  \/ PackFrameEnd

SpecPack == InitPack /\ [][NextPack]_vars

\* ------------------------------------------------------ derived quantities
\* number of drawSpriteSource calls made for a texture since framePass
CallCount(texture) == Cardinality({i \in 1..Len(calls) : calls[i] = texture})

\* ordinals of the frame's calls made for a texture, in call order
CallsFor(texture) == SelectSeqIdx(calls, LAMBDA i : calls[i] = texture)

InstanceCounts(texture) ==
  LET bs == BatchesOf(batchDrawCallPerTexture, TexId(texture))
  IN  [j \in 1..Len(bs) |-> bs[j].instanceCount]

NonEmptyBatches(texture) ==
  LET bs == BatchesOf(batchDrawCallPerTexture, TexId(texture))
  IN  Cardinality({j \in 1..Len(bs) : bs[j].instanceCount > 0})

\* the quads a batch holds: its first instanceCount slots
WrittenSlots(batch) ==
  LET n == IF batch.instanceCount < cap THEN batch.instanceCount ELSE cap
  IN  SubSeq([s \in 1..cap |-> batch.vertexData[s]], 1, n)

\* the quads stored for a texture, batch after batch, slot after slot
StoredQuads(texture) ==
  LET bs == BatchesOf(batchDrawCallPerTexture, TexId(texture))
  IN  Flatten([j \in 1..Len(bs) |-> WrittenSlots(bs[j])])

IndexCounts == [d \in 1..Len(passEncoder) |-> passEncoder[d].indexCount]

\* ------------------------------------------------------------------ C1
\* C1 as stated: for every texture, the number of BatchDrawCall objects in
\* its batch list equals ceil(N / capacity), N the number of calls made for
\* it since framePass, exact multiples of the capacity included.
C1_BatchObjectsAreCeil ==
  error = "none" =>
    \A t \in Textures :
      Len(BatchesOf(batchDrawCallPerTexture, TexId(t))) = Ceil(CallCount(t), cap)

\* C1 amended: the number of batches holding at least one sprite equals
\* ceil(N / capacity); the list itself holds floor(N / capacity) + 1 objects
\* once N >= 1 (a full batch is followed at once by a fresh empty one) and
\* none when N = 0.
C1_NonEmptyBatchesAreCeil ==
  error = "none" =>
    \A t \in Textures :
      /\ NonEmptyBatches(t) = Ceil(CallCount(t), cap)
      /\ Len(BatchesOf(batchDrawCallPerTexture, TexId(t))) =
           IF CallCount(t) = 0 THEN 0 ELSE (CallCount(t) \div cap) + 1

\* a texture has received exactly one capacity's worth of calls
C1_Witness ==
  \E t \in Textures :
    /\ CallCount(t) = cap
    /\ InstanceCounts(t) = <<cap, 0>>

\* every batch of the table with the key of its list, in frameEnd's order
KeyedBatches ==
  Flatten([k \in 1..Len(batchDrawCallPerTexture) |->
            [j \in 1..Len(batchDrawCallPerTexture[k].calls) |->
              [key |-> batchDrawCallPerTexture[k].key,
               batch |-> batchDrawCallPerTexture[k].calls[j]]]])

\* a frameEnd has just returned
AfterFrameEnd == phase = "idle" /\ frames # <<>>

LastFrame == frames[Len(frames)]

EarlierPeak == MaxSeq(SubSeq(frames, 1, Len(frames) - 1))

CreateCount(id) ==
  Cardinality({i \in 1..Len(createLog) : createLog[i].texture = id})

\* ------------------------------------------------------------------ C2
\* C2: batch splitting loses and duplicates no sprite.  For every texture
\* the instanceCounts of its batches sum to the number of calls made for it
\* since framePass and its batches hold exactly the quads of those calls, each
\* once, in call order; the index counts drawn by frameEnd sum to 6 times the
\* number of calls of the frame; no call fails.
C2_NoSpriteLostOrDuplicated ==
  /\ error = "none"
  /\ \A t \in Textures :
       /\ SumSeq(InstanceCounts(t)) = CallCount(t)
       /\ StoredQuads(t) = CallsFor(t)
  /\ AfterFrameEnd => SumSeq(IndexCounts) = 6 * Len(calls)

\* a frame whose calls overflowed one batch has been drawn
C2_Witness ==
  /\ AfterFrameEnd
  /\ \E t \in Textures : NonEmptyBatches(t) >= 2 /\ CallCount(t) > cap
  /\ SumSeq(IndexCounts) > 6 * cap

\* ------------------------------------------------------------------ C3
\* C3 as stated: right after a frameEnd the pool holds as many buffers as
\* non-empty batches were drawn in that frame, whatever the earlier frames
\* drew.
C3_PoolEqualsFrameBatches ==
  AfterFrameEnd => Len(allocatedVertexBuffers) = LastFrame

\* C3 amended: right after a frameEnd the pool holds as many buffers as
\* non-empty batches were drawn in that frame when no earlier frame drew
\* more; when an earlier frame drew more, it holds as many as the largest
\* earlier frame drew.
C3_PoolEqualsFrameBatchesUnlessEarlierLarger ==
  AfterFrameEnd =>
    Len(allocatedVertexBuffers) =
      IF LastFrame >= EarlierPeak THEN LastFrame ELSE EarlierPeak

\* a frame that drew fewer batches than an earlier one has ended
C3_Witness ==
  /\ AfterFrameEnd
  /\ Len(frames) >= 2
  /\ LastFrame < EarlierPeak
  /\ LastFrame > 0

\* ------------------------------------------------------------------ C4
\* C4: the pool is bounded by peak demand and never shrinks.  The number of
\* vertex buffers ever created equals the largest number of non-empty
\* batches one frame has drawn so far, every created buffer is in the pool
\* (once) between renderer calls, and the pool size never decreases.
C4_PoolBoundedByPeak ==
  /\ [](/\ Len(buffers) = MaxSeq(frames)
        /\ Len(allocatedVertexBuffers) = Len(buffers)
        /\ {allocatedVertexBuffers[i] : i \in 1..Len(allocatedVertexBuffers)}
             = 1..Len(buffers))
  /\ [][Len(allocatedVertexBuffers') >= Len(allocatedVertexBuffers)]_vars

\* a three-batch frame has been followed by a smaller one
C4_Witness ==
  /\ AfterFrameEnd
  /\ Len(frames) >= 2
  /\ frames[1] >= 3
  /\ LastFrame < frames[1]
  /\ Len(allocatedVertexBuffers) = frames[1]

\* ------------------------------------------------------------------ C5
\* C5: an empty frame is a no-op.  framePass leaves pool and buffers alone
\* and starts an empty pass; a frameEnd that follows it with no
\* drawSpriteSource call in between records no drawIndexed, creates no
\* buffer and leaves the pool size unchanged.
C5_EmptyFrameIsNoOp ==
  [][/\ (phase = "idle" /\ phase' = "pass") =>
          /\ passEncoder' = <<>>
          /\ buffers' = buffers
          /\ allocatedVertexBuffers' = allocatedVertexBuffers
     /\ (phase = "pass" /\ calls = <<>> /\ phase' = "idle") =>
          /\ passEncoder' = <<>>
          /\ Len(buffers') = Len(buffers)
          /\ Len(allocatedVertexBuffers') = Len(allocatedVertexBuffers)]_vars

\* an empty frame has ended after a frame that drew something
C5_Witness ==
  /\ AfterFrameEnd
  /\ Len(frames) >= 2
  /\ calls = <<>>
  /\ LastFrame = 0
  /\ EarlierPeak > 0
  /\ Len(allocatedVertexBuffers) = EarlierPeak

\* ------------------------------------------------------------------ C6
\* C6: with capacity 2, framePass, three calls for texture A and frameEnd
\* leave exactly two batches for A with instanceCounts 2 and 1, and exactly
\* two drawIndexed calls, of 12 and then 6 indices.
C6_ThreeSpritesCapacityTwo ==
  (cap = 2 /\ AfterFrameEnd /\ calls = <<"A", "A", "A">>) =>
    /\ InstanceCounts("A") = <<2, 1>>
    /\ IndexCounts = <<12, 6>>

\* the scenario has run
C6_Witness ==
  /\ cap = 2
  /\ AfterFrameEnd
  /\ calls = <<"A", "A", "A">>
  /\ Len(passEncoder) = 2

\* ------------------------------------------------------------------ C7
\* C7: SpritePipeline.create runs at most once per texture id; every batch
\* stored for a texture carries the cached pipeline of that texture; and no
\* step (framePass and frameEnd included) removes or replaces a cache entry.
C7_PipelineCache ==
  /\ [](/\ \A t \in Textures : CreateCount(TexId(t)) <= 1
        /\ \A i \in 1..Len(KeyedBatches) :
             /\ KeyedBatches[i].batch.pipeline # NoPipeline
             /\ KeyedBatches[i].batch.pipeline =
                  pipelinesPerTexture[KeyedBatches[i].key])
  /\ [][\A t \in Textures :
          pipelinesPerTexture[TexId(t)] # NoPipeline =>
            pipelinesPerTexture'[TexId(t)] = pipelinesPerTexture[TexId(t)]]_vars

\* a texture whose pipeline was created in frame 1 is drawn again in frame 2,
\* after another texture was drawn in between
C7_Witness ==
  /\ Len(frames) = 1
  /\ phase = "pass"
  /\ Len(calls) >= 3
  /\ calls[1] = calls[3]
  /\ calls[1] # calls[2]
  /\ \E i \in 1..Len(createLog) :
       /\ createLog[i].frame = 1
       /\ createLog[i].texture = TexId(calls[1])

\* ------------------------------------------------------------------ C8
\* C8: every BatchDrawCall of the batch table has
\* 0 <= instanceCount <= capacity.
C8_InstanceCountInRange ==
  \A i \in 1..Len(KeyedBatches) :
    /\ KeyedBatches[i].batch.instanceCount >= 0
    /\ KeyedBatches[i].batch.instanceCount <= cap

\* a texture holds two full batches
C8_Witness ==
  \E t \in Textures :
    /\ Len(InstanceCounts(t)) >= 3
    /\ InstanceCounts(t)[1] = cap
    /\ InstanceCounts(t)[2] = cap

\* ------------------------------------------------------------------ C9
\* C9: a sealed batch is never written again.  Between calls the last batch
\* of every batch list has instanceCount < capacity and every earlier one
\* has instanceCount = capacity; and within a frame no step changes a batch
\* whose instanceCount equals the capacity.
C9_SealedBatchNeverWritten ==
  /\ [](\A k \in 1..Len(batchDrawCallPerTexture) :
          LET bs == batchDrawCallPerTexture[k].calls
          IN  /\ bs # <<>>
              /\ bs[Len(bs)].instanceCount < cap
              /\ \A j \in 1..(Len(bs) - 1) : bs[j].instanceCount = cap)
  /\ [][phase = "pass" =>
          \A k \in 1..Len(batchDrawCallPerTexture) :
            \A j \in 1..Len(batchDrawCallPerTexture[k].calls) :
              batchDrawCallPerTexture[k].calls[j].instanceCount = cap =>
                /\ k <= Len(batchDrawCallPerTexture')
                /\ batchDrawCallPerTexture'[k].key = batchDrawCallPerTexture[k].key
                /\ j <= Len(batchDrawCallPerTexture'[k].calls)
                /\ batchDrawCallPerTexture'[k].calls[j] =
                     batchDrawCallPerTexture[k].calls[j]]_vars

\* a sprite was packed after a batch of its texture had been sealed
C9_Witness ==
  \E t \in Textures :
    /\ Len(InstanceCounts(t)) = 2
    /\ InstanceCounts(t)[1] = cap
    /\ InstanceCounts(t)[2] >= 1
    /\ phase = "pass"

\* ------------------------------------------------------------------ C10
\* C10: frameEnd records one drawIndexed per batch with instanceCount > 0 and
\* none for an empty batch; each draw covers 6 * instanceCount indices of its
\* batch and is recorded with that batch's pipeline, the shared index buffer,
\* a vertex buffer that holds the batch's vertexData, the camera bind group
\* at slot 0 and the bind group of the batch's texture at slot 1.
C10_OneDrawPerNonEmptyBatch ==
  AfterFrameEnd =>
    LET drawnBatches ==
          SelectSeq(KeyedBatches, LAMBDA e : e.batch.instanceCount > 0)
    IN  /\ Len(passEncoder) = Len(drawnBatches)
        /\ \A d \in 1..Len(drawnBatches) :
             LET b == drawnBatches[d].batch
                 c == passEncoder[d]
             IN  /\ c.indexCount = 6 * b.instanceCount
                 /\ c.pipeline = b.pipeline.id
                 /\ c.pipeline = pipelinesPerTexture[drawnBatches[d].key].id
                 /\ c.indexBuffer = "indexBuffer"
                 /\ c.vertexBuffer \in 1..Len(buffers)
                 /\ buffers[c.vertexBuffer] = b.vertexData
                 /\ c.bindGroup0 = "projectionView"
                 /\ c.bindGroup1 = drawnBatches[d].key

\* a frame with batches of two textures and with an empty batch has been drawn
C10_Witness ==
  /\ AfterFrameEnd
  /\ Len(batchDrawCallPerTexture) = 2
  /\ Len(passEncoder) >= 2
  /\ Len(KeyedBatches) > Len(passEncoder)

\* ------------------------------------------------------------------ C11
\* position of the first call of the frame made for a texture id
FirstCall(id) == CHOOSE i \in 1..Len(calls) :
                   /\ TexId(calls[i]) = id
                   /\ \A h \in 1..(i - 1) : TexId(calls[h]) # id

IndicesDrawnFor(id) ==
  SumSeq([d \in 1..Len(passEncoder) |->
            IF passEncoder[d].bindGroup1 = id THEN passEncoder[d].indexCount ELSE 0])

\* C12: framePass empties the batch table, so a frame draws its own sprites
\* only: right after framePass the table has no entry, and frameEnd draws
\* for every texture exactly 6 indices per call made for it in this frame.
C12_FramePassEmptiesTable ==
  /\ [][(phase = "idle" /\ phase' = "pass") => batchDrawCallPerTexture' = <<>>]_vars
  /\ [](AfterFrameEnd =>
          \A t \in Textures : IndicesDrawnFor(TexId(t)) = 6 * CallCount(t))

\* the second frame drew only A after the first frame had drawn B
C12_Witness ==
  /\ AfterFrameEnd
  /\ Len(frames) = 2
  /\ CallCount("A") > 0
  /\ CallCount("B") = 0
  /\ \E i \in 1..Len(createLog) :
       createLog[i].texture = "B" /\ createLog[i].frame = 1

\* ------------------------------------------------------------------ C13
\* what may directly follow a call within one run of draw()
MayFollow(a, b) ==
  \/ a = "beginRenderPass" /\ b = "framePass"
  \/ a = "framePass" /\ b \in {"drawSpriteSource", "frameEnd"}
  \/ a = "drawSpriteSource" /\ b \in {"drawSpriteSource", "frameEnd"}
  \/ a = "frameEnd" /\ b = "end"
  \/ a = "end" /\ b = "submit"
  \/ a = "submit" /\ b = "requestAnimationFrame"

\* C13: in every run of the render loop's callback the phases are strictly
\* ordered: framePass once and before any drawSpriteSource, frameEnd once and
\* after the last drawSpriteSource, the pass ended and the commands
\* submitted only after frameEnd, the next frame requested only after the
\* submit; and a new run starts only once the previous one has requested it.
C13_PhasesStrictlyOrdered ==
  /\ [](/\ log # <<>> => log[1] = "beginRenderPass"
        /\ \A i \in 1..(Len(log) - 1) : MayFollow(log[i], log[i + 1])
        /\ phase = "pass" <=>
             (/\ \E i \in 1..Len(log) : log[i] = "framePass"
              /\ \A i \in 1..Len(log) : log[i] # "frameEnd"))
  /\ [][(Len(log') = 1 /\ log # <<>>) =>
          log[Len(log)] = "requestAnimationFrame"]_vars

\* a second run of the callback, with draws, has requested the next frame
C13_Witness ==
  /\ Len(frames) = 2
  /\ Len(log) >= 8
  /\ log[Len(log)] = "requestAnimationFrame"
  /\ log[Len(log) - 1] = "submit"

\* ------------------------------------------------------------------ C14
\* the sourceRect lies within the texture
WithinTexture(r, size) ==
  /\ 0 <= r.x /\ 0 <= r.y /\ r.width >= 0 /\ r.height >= 0
  /\ r.x + r.width <= size.width
  /\ r.y + r.height <= size.height

\* C14: for a sourceRect that lies within its texture the computed texture
\* coordinates satisfy 0 <= u0 <= u1 <= 1 and 0 <= v0 <= v1 <= 1 (in units
\* of 1 / UvScale).
C14_TexCoordsInUnitSquare ==
  (uvs # <<>> /\ WithinTexture(uvArgs.sourceRect, uvArgs.size)) =>
    /\ 0 <= uvs.u0 /\ uvs.u0 <= uvs.u1 /\ uvs.u1 <= UvScale
    /\ 0 <= uvs.v0 /\ uvs.v0 <= uvs.v1 /\ uvs.v1 <= UvScale

\* the coordinates of a cell strictly inside a non-square texture, reaching
\* its right edge, have been computed
C14_Witness ==
  /\ uvs # <<>>
  /\ WithinTexture(uvArgs.sourceRect, uvArgs.size)
  /\ uvArgs.size.width > uvArgs.size.height
  /\ uvArgs.sourceRect.x > 0
  /\ uvArgs.sourceRect.width > 0
  /\ uvArgs.sourceRect.x + uvArgs.sourceRect.width = uvArgs.size.width
  /\ 0 < uvs.u0 /\ uvs.u0 < uvs.u1 /\ uvs.u1 = UvScale

\* ------------------------------------------------------ the sprite catalog
\* the element carries all five attributes
WellFormed(subTexture) ==
  \A a \in {"name", "x", "y", "width", "height"} : subTexture[a] # <<>>

\* the catalog holds, under the element's name, the Sprite the element describes
Catalogued(subTexture) ==
  LET name == PropertyKey(subTexture.name) IN
  /\ name \in DOMAIN sprites
  /\ sprites[name].texture = content.spriteSheet
  /\ heap[sprites[name].sourceRect] =
       Rect(Num(subTexture.x[1]), Num(subTexture.y[1]),
            Num(subTexture.width[1]), Num(subTexture.height[1]))
  /\ heap[sprites[name].drawRect] =
       Rect(Num(0), Num(0), Num(subTexture.width[1]), Num(subTexture.height[1]))

\* no later element of the sheet carries the same name
LastOfItsName(i) ==
  \A j \in DOMAIN descriptor.subTextures :
    j > i => PropertyKey(descriptor.subTextures[j].name)
               # PropertyKey(descriptor.subTextures[i].name)

\* the addresses of the Rects the catalog's sprites hold
RectsOf(name) == {sprites[name].drawRect, sprites[name].sourceRect}

\* C15 as stated: once loadSpriteSheet has returned, every element that has
\* name, x, y, width and height is in the catalog under its name, with the
\* sprite sheet as texture, sourceRect {x, y, width, height} and drawRect
\* {0, 0, width, height}.
C15_EveryEntryCatalogued ==
  pc = "createRenderer" =>
    \A i \in DOMAIN descriptor.subTextures :
      WellFormed(descriptor.subTextures[i]) => Catalogued(descriptor.subTextures[i])

\* C15 amended: that holds for every such element that is the last of its
\* name in the sheet; every sprite of the catalog holds two Rect objects no
\* other sprite holds, its drawRect distinct from its sourceRect; and a step
\* of the program changes no sourceRect and the drawRect of at most one sprite.
C15_LastEntryCataloguedOwnRects ==
  /\ [](/\ pc = "createRenderer" =>
             \A i \in DOMAIN descriptor.subTextures :
               WellFormed(descriptor.subTextures[i]) /\ LastOfItsName(i)
                 => Catalogued(descriptor.subTextures[i])
        /\ \A n \in DOMAIN sprites :
             /\ sprites[n].drawRect # sprites[n].sourceRect
             /\ \A m \in DOMAIN sprites : m # n => RectsOf(m) \cap RectsOf(n) = {})
  /\ [][pc \notin {"loadSpriteSheet"} =>
          /\ \A n \in DOMAIN sprites :
               heap'[sprites[n].sourceRect] = heap[sprites[n].sourceRect]
          /\ Cardinality({n \in DOMAIN sprites :
               heap'[sprites[n].drawRect] # heap[sprites[n].drawRect]}) <= 1]_vars

\* the player sprite's drawRect has moved and the shield sprite's has not
C15_Witness ==
  /\ pc = "playerDrawn"
  /\ DOMAIN sprites = {"playerShip1_blue.png", "shield1.png"}
  /\ heap[sprites["playerShip1_blue.png"].drawRect].x = <<7>>
  /\ heap[sprites["shield1.png"].drawRect].x = Num(0)
  /\ \A i \in DOMAIN descriptor.subTextures : WellFormed(descriptor.subTextures[i])

\* C16: a lookup of a name the catalog does not hold fails at the lookup
\* itself: draw() never holds an undefined sprite once a lookup has returned.
C16_LookupNeverReturnsUndefined ==
  /\ pc = "playerLookedUp" => playerSprite # Undefined
  /\ pc = "shieldLookedUp" => shield # Undefined

\* the sheet could not be parsed, or one of its elements lacks an attribute
Malformed(sheet) ==
  \/ sheet.parseError
  \/ \E i \in DOMAIN sheet.subTextures : ~WellFormed(sheet.subTextures[i])

\* C17: with a malformed sheet Content.initialize does not complete, so main
\* never gets past it (no renderer is created, no frame is started), and the
\* catalog holds no entry.
C17_MalformedSheetAbortsStartup ==
  Malformed(descriptor) =>
    /\ pc \notin {"createRenderer", "draw"}
    /\ log = <<>>
    /\ DOMAIN sprites = {}

\* a createTextureFromURL call of Content.initialize was rejected
TextureFailed == \E i \in DOMAIN loads : ~loads[i].ok

\* C18: once a texture has failed to load, the failure has been logged and
\* has ended main with the rejection; no frame has been started (framePass
\* was never called, nothing was drawn); the failed load was the last one and
\* no texture was requested twice; the catalog is empty.
C18_TextureFailureAbortsStartup ==
  TextureFailed =>
    /\ "Failed to load image" \in {consoleErrors[i] : i \in DOMAIN consoleErrors}
    /\ pc = "halted"
    /\ error = "rejected"
    /\ log = <<>>
    /\ frames = <<>>
    /\ calls = <<>>
    /\ phase = "idle"
    /\ ~loads[Len(loads)].ok
    /\ \A i, j \in DOMAIN loads : loads[i].field = loads[j].field => i = j
    /\ DOMAIN sprites = {}

\* the third texture failed after two had loaded
C18_Witness ==
  /\ Len(loads) = 3
  /\ loads[1].ok
  /\ loads[2].ok
  /\ ~loads[3].ok
  /\ Len(descriptor.subTextures) > 0

\* an error was thrown out of draw() after the frame had begun
FrameFailed == log # <<>> /\ error # "none"

\* C19: an error thrown inside a frame ends that frame only: once it is
\* thrown, the next run of draw() is pending.
C19_LoopSurvivesFrameError == FrameFailed => pc = "draw"

\* draw() has run at least up to beginRenderPass, or the renderer was used
FrameStarted == log # <<>> \/ frames # <<>> \/ calls # <<>> \/ phase = "pass"

\* the statements of main and Content.initialize that are awaited
AwaitedSteps == {"initializeGpu", "loadSpriteSheet"} \cup TextureFields

\* the positions of draw() between two of its statements
InsideFrame ==
  {"encoding", "framed", "playerLookedUp", "playerDrawn", "shieldLookedUp",
   "shieldDrawn", "uvDrawn", "frameEnded", "passEnded", "submitted"}

\* a step taken inside a frame stays in draw() and leaves the startup's results
StaysInFrame ==
  pc \in InsideFrame =>
    /\ pc' \in InsideFrame \cup {"draw", "halted"}
    /\ UNCHANGED <<device, content, loads, sprites>>

\* C20: when a frame has been started the device is acquired, each of the
\* four textures has been loaded (once, successfully) and the atlas has been
\* loaded, and no awaited step is pending; from inside a frame the program
\* only goes on to the frame's next statement, the next frame or the end of
\* the loop, and no startup result changes meanwhile.
C20_FramesOnlyAfterStartup ==
  /\ [](FrameStarted =>
          /\ device = "GPUDevice"
          /\ Len(loads) = 4
          /\ \A f \in TextureFields :
               /\ content[f] = TextureOf(f)
               /\ \E i \in DOMAIN loads : loads[i] = [field |-> f, ok |-> TRUE]
          /\ Len(heap) = 2 * Len(descriptor.subTextures)
          /\ pc \notin AwaitedSteps)
  /\ [][StaysInFrame]_vars

\* the second frame is under way, with the whole catalog loaded
C20_Witness ==
  /\ pc = "uvDrawn"
  /\ Len(frames) = 1
  /\ Len(loads) = 4
  /\ Len(heap) = 4

\* initializeGpu did not deliver a device and main has ended
GpuUnavailable == pc = "halted" /\ device = "undefined"

\* the errors initializeGpu itself raises
InitializationErrors == {"No adapter found"}

\* C21: when there is no canvas context or no adapter, main has ended with an
\* error raised by initializeGpu, no frame was started and no texture load or
\* second attempt was made.
C21_GpuFailureIsInitializationError ==
  GpuUnavailable =>
    /\ error \in InitializationErrors
    /\ log = <<>>
    /\ frames = <<>>
    /\ loads = <<>>

\* the index buffer's contents changed in this step
IndexBufferWritten == indexBuffer' # indexBuffer

\* C22: once built, the index buffer holds for every quad slot i the indices
\* 4i, 4i+1, 4i+2, 4i+2, 4i+3, 4i at positions 6i..6i+5; it is built by the
\* step that initializes the renderer and by no other, it is built before
\* any frame, and every draw of every batch binds it.
C22_IndexBufferBuiltOnceAndShared ==
  /\ [](/\ indexBuffer # <<>> =>
             /\ Len(indexBuffer) = 6 * cap
             /\ \A i \in 0..(cap - 1) :
                  /\ indexBuffer[6 * i + 1] = 4 * i + 0
                  /\ indexBuffer[6 * i + 2] = 4 * i + 1
                  /\ indexBuffer[6 * i + 3] = 4 * i + 2
                  /\ indexBuffer[6 * i + 4] = 4 * i + 2
                  /\ indexBuffer[6 * i + 5] = 4 * i + 3
                  /\ indexBuffer[6 * i + 6] = 4 * i + 0
        /\ FrameStarted => indexBuffer # <<>>
        /\ \A d \in DOMAIN passEncoder : passEncoder[d].indexBuffer = "indexBuffer")
  /\ [][IndexBufferWritten => pc = "createRenderer" /\ indexBuffer = <<>>]_vars

\* two batches of two textures have been drawn with the buffer bound
C22_Witness ==
  /\ Len(passEncoder) = 2
  /\ passEncoder[1].bindGroup1 # passEncoder[2].bindGroup1
  /\ Len(indexBuffer) = 6 * cap
  /\ Len(frames) = 2

\* the logged calls of the frame that used the texture, in call order
LogFor(id) == SelectSeq(packLog, LAMBDA a : TexId(a.texture) = id)

\* the seven floats of vertex v (0..3) of quad slot k
VertexAt(vertexData, k, v) ==
  SubSeq(vertexData, 28 * k + 7 * v + 1, 28 * k + 7 * v + 7)

\* the color a logged call is drawn with: white when it passed none
ColorOf(a) == IF a.color = <<>> THEN <<1, 1, 1>> ELSE <<a.color[1].r, a.color[1].g, a.color[1].b>>

\* slot k of the batch holds the quad of the logged call a
HoldsQuad(vertexData, k, a) ==
  LET x == a.rect.x
      y == a.rect.y
      w == a.rect.width
      h == a.rect.height
      u0 == Quotient(a.sourceRect.x, a.size.width)
      v0 == Quotient(a.sourceRect.y, a.size.height)
      u1 == Quotient(a.sourceRect.x + a.sourceRect.width, a.size.width)
      v1 == Quotient(a.sourceRect.y + a.sourceRect.height, a.size.height)
  IN  /\ VertexAt(vertexData, k, 0) = <<x, y, u0, v0>> \o ColorOf(a)
      /\ VertexAt(vertexData, k, 1) = <<x + w, y, u1, v0>> \o ColorOf(a)
      /\ VertexAt(vertexData, k, 2) = <<x + w, y + h, u1, v1>> \o ColorOf(a)
      /\ VertexAt(vertexData, k, 3) = <<x, y + h, u0, v1>> \o ColorOf(a)

\* C23: in every batch of every texture, slot k (floats 28k..28k+27) holds
\* the quad of the k-th call packed into the batch: top left, top right,
\* bottom right, bottom left, each with the call's color, white when none
\* was passed; the array keeps its capacity * 28 elements, no
\* slot at or past the capacity is written, and every float after the last
\* packed sprite still holds its initial 0.
C23_VertexPacking ==
  \A e \in DOMAIN batchDrawCallPerTexture :
    \A bi \in DOMAIN batchDrawCallPerTexture[e].calls :
      LET id == batchDrawCallPerTexture[e].key
          batch == batchDrawCallPerTexture[e].calls[bi]
      IN  /\ Len(batch.vertexData) = cap * 28
          /\ batch.instanceCount <= cap
          /\ \A k \in 0..(batch.instanceCount - 1) :
               /\ 28 * k + 27 < cap * 28
               /\ HoldsQuad(batch.vertexData, k, LogFor(id)[(bi - 1) * cap + k + 1])
          /\ \A p \in (28 * batch.instanceCount + 1)..Len(batch.vertexData) :
               batch.vertexData[p] = 0

\* a batch filled to its last slot with calls of both kinds of color, after
\* the rect has moved between two of its calls
C23_Witness ==
  \E e \in DOMAIN batchDrawCallPerTexture :
    LET id == batchDrawCallPerTexture[e].key
        batch == batchDrawCallPerTexture[e].calls[1]
    IN  /\ batch.instanceCount = cap
        /\ Len(LogFor(id)) >= cap
        /\ LogFor(id)[1].color # LogFor(id)[2].color
        /\ LogFor(id)[1].rect # LogFor(id)[2].rect

\* a drawSpriteSource call for the texture puts its quad behind the quads
\* already stored for that texture and leaves every other texture's batches
RoutedToOwnTexture(texture) ==
  calls' = Append(calls, texture) =>
    /\ StoredQuads(texture)' = Append(StoredQuads(texture), Len(calls) + 1)
    /\ \A other \in Textures \ {texture} :
         BatchesOf(batchDrawCallPerTexture, TexId(other))'
           = BatchesOf(batchDrawCallPerTexture, TexId(other))

\* C24: whatever the interleaving of the textures, every call's quad goes to
\* the end of its own texture's batches; every batch stored under a texture
\* carries that texture's cached pipeline, with that texture's bind group;
\* every batch but the last of a list is full, so coming back to a texture
\* starts no batch while its last one has room; and the number of non-empty
\* batches of a texture is ceil(calls for it / capacity).
C24_RoutingUnderInterleaving ==
  /\ [](\A texture \in Textures :
          LET bs == BatchesOf(batchDrawCallPerTexture, TexId(texture))
          IN  /\ \A j \in 1..Len(bs) :
                   /\ bs[j].pipeline = pipelinesPerTexture[TexId(texture)]
                   /\ bs[j].pipeline.texture = texture
                   /\ j < Len(bs) => bs[j].instanceCount = cap
              /\ NonEmptyBatches(texture) = Ceil(CallCount(texture), cap))
  /\ [][\A texture \in Textures : RoutedToOwnTexture(texture)]_vars

\* A, B, A, B: each texture's one batch holds its two quads
C24_Witness ==
  /\ calls = <<"A", "B", "A", "B">>
  /\ cap = 3
  /\ InstanceCounts("A") = <<2>>
  /\ InstanceCounts("B") = <<2>>
  /\ StoredQuads("A") = <<1, 3>>
  /\ StoredQuads("B") = <<2, 4>>

\* the batches frameEnd draws, in the order it draws them
DrawnBatches ==
  SelectSeq(AllBatches(batchDrawCallPerTexture), LAMBDA b : b.instanceCount > 0)

\* C25: the pool never holds a buffer twice; and from a frameEnd until the
\* next framePass (so also at the frame's submit) the frame's draws bind
\* pairwise distinct vertex buffers, one per drawn batch, and each of these
\* buffers holds the vertexData of the batch drawn from it.
C25_OneBufferPerBatch ==
  /\ \A i, j \in DOMAIN allocatedVertexBuffers :
       allocatedVertexBuffers[i] = allocatedVertexBuffers[j] => i = j
  /\ AfterFrameEnd =>
       /\ Len(passEncoder) = Len(DrawnBatches)
       /\ \A d, e \in DOMAIN passEncoder :
            passEncoder[d].vertexBuffer = passEncoder[e].vertexBuffer => d = e
       /\ \A d \in DOMAIN passEncoder :
            buffers[passEncoder[d].vertexBuffer] = DrawnBatches[d].vertexData

\* a later frame draws three batches, two of them from buffers taken from
\* the pool, and is at its submit
C25_Witness ==
  /\ pc = "submitted"
  /\ Len(frames) = 2
  /\ frames[1] = 2
  /\ frames[2] = 3

\* C26: in the batching example no drawSprite call made after a framePass
\* throws: each finds the batch list of its texture.
C26_DrawSpriteAlwaysFindsBatchList == error = "none"

\* the caller changes one of its Rect objects in this step
RectMutated == packArgs' # packArgs

\* a drawSpriteSource call is made in this step
SpritePacked == Len(packLog') = Len(packLog) + 1

\* a step that mutates a Rect changes neither the batches nor the vertex
\* buffers nor the recorded draws
MutationLeavesVertexData ==
  RectMutated => UNCHANGED <<batchDrawCallPerTexture, buffers, passEncoder>>

\* a drawSpriteSource call changes neither the Rects it is given nor the catalog
PackingLeavesArguments == SpritePacked => UNCHANGED <<packArgs, sprites, heap>>

\* C27: after frameEnd the vertex buffer drawn for a call holds the quad of
\* the drawRect, sourceRect and color values the call was made with, whatever
\* the Rect objects hold by then; a later mutation of a Rect changes no
\* packed vertex data, in the batches or in the buffers; and a
\* drawSpriteSource call leaves its Rects and the catalog as they were.
C27_ArgumentsCapturedByValue ==
  /\ [](AfterFrameEnd =>
          \A j \in 0..(Len(packLog) - 1) :
            /\ (j \div cap) + 1 \in DOMAIN passEncoder
            /\ HoldsQuad(buffers[passEncoder[(j \div cap) + 1].vertexBuffer],
                         j % cap, packLog[j + 1]))
  /\ [][MutationLeavesVertexData]_vars
  /\ [][PackingLeavesArguments]_vars

\* the second frame has been drawn, and the rect has moved since the frame's
\* first call and again since its last call
C27_Witness ==
  /\ AfterFrameEnd
  /\ Len(frames) = 2
  /\ Len(packLog) >= 2
  /\ packLog[1].rect # packLog[Len(packLog)].rect
  /\ packLog[Len(packLog)].rect # packArgs.drawRect

\* the capacities the two examples are configured with
ConfiguredCapacities == {MAX_NUMBER_OF_SPRITES, BATCHING_MAX_NUMBER_OF_SPRITES}

\* the index buffer built for capacity n holds the values 4i + 0..3 unwrapped
IndicesFit(n) ==
  LET data == SetupIndexBuffer(n)
  IN  /\ \A i \in 0..(n - 1) :
           /\ data[6 * i + 1] = 4 * i
           /\ data[6 * i + 2] = 4 * i + 1
           /\ data[6 * i + 3] = 4 * i + 2
           /\ data[6 * i + 4] = 4 * i + 2
           /\ data[6 * i + 5] = 4 * i + 3
           /\ data[6 * i + 6] = 4 * i
      /\ \A p \in DOMAIN data : data[p] <= 4 * n - 1 /\ 4 * n - 1 <= 65535

\* the index buffers of both examples hold unwrapped values
ConfiguredIndicesFit == \A n \in ConfiguredCapacities : IndicesFit(n)

\* C28: for the capacities 3 and 1000 every value of the index buffer is the
\* unwrapped 4i + c, at most 4 * capacity - 1 <= 65535; and every drawIndexed
\* of a frame reads 6 * instanceCount <= 6 * capacity indices of the buffer,
\* each below 4 * instanceCount of the batch it draws, whose slots below
\* instanceCount were all written by calls of the frame.
C28_IndicesFitAndStayInBatch ==
  /\ ConfiguredIndicesFit
  /\ \A p \in DOMAIN indexBuffer : indexBuffer[p] = 4 * ((p - 1) \div 6) + <<0, 1, 2, 2, 3, 0>>[((p - 1) % 6) + 1]
  /\ AfterFrameEnd =>
       \A d \in DOMAIN passEncoder :
         LET batch == DrawnBatches[d]
         IN  /\ passEncoder[d].indexCount = 6 * batch.instanceCount
             /\ passEncoder[d].indexCount <= 6 * cap
             /\ passEncoder[d].indexCount <= Len(indexBuffer)
             /\ \A p \in 1..passEncoder[d].indexCount :
                  indexBuffer[p] < 4 * batch.instanceCount
             /\ \A slot \in 1..batch.instanceCount :
                  batch.vertexData[slot] \in 1..Len(calls)

\* a full batch of three sprites has been drawn: its draw reads up to index 11
C28_Witness ==
  /\ AfterFrameEnd
  /\ cap = 3
  /\ \E d \in DOMAIN passEncoder :
       /\ passEncoder[d].indexCount = 18
       /\ indexBuffer[17] = 11

\* the vertex data the frame's draws for a texture read, in draw order
DrawnDataFor(texture) ==
  LET ds == SelectSeq(passEncoder, LAMBDA d : d.bindGroup1 = texture)
  IN  [d \in 1..Len(ds) |-> buffers[ds[d].vertexBuffer]]

\* the vertex data of a texture's non-empty batches, in list order
BatchDataFor(texture) ==
  LET bs == SelectSeq(BatchesOf(batchDrawCallPerTexture, TexId(texture)),
                      LAMBDA b : b.instanceCount > 0)
  IN  [j \in 1..Len(bs) |-> bs[j].vertexData]

\* C29: of two quads stored for one texture, the one of the earlier call is
\* in an earlier batch of the texture's list or at a lower slot of the same
\* batch; and frameEnd draws the texture's non-empty batches in list order.
C29_PerTextureOrderIsCallOrder ==
  \A texture \in Textures :
    LET bs == BatchesOf(batchDrawCallPerTexture, TexId(texture))
    IN  /\ \A j1, j2 \in 1..Len(bs) :
             \A s1 \in 1..bs[j1].instanceCount, s2 \in 1..bs[j2].instanceCount :
               bs[j1].vertexData[s1] < bs[j2].vertexData[s2]
                 <=> (j1 < j2 \/ (j1 = j2 /\ s1 < s2))
        /\ AfterFrameEnd => DrawnDataFor(texture) = BatchDataFor(texture)

\* B, A, A, A with capacity 2: A's quads 2, 3 and 4 lie in two batches, both drawn
C29_Witness ==
  /\ AfterFrameEnd
  /\ calls = <<"B", "A", "A", "A">>
  /\ cap = 2
  /\ Len(DrawnDataFor("A")) = 2

\* a step of the draw callback that is the named renderer call
IsCall(name) == log' = Append(log, name)

FramePassFrame ==
  IsCall("framePass") => UNCHANGED <<pipelinesPerTexture, allocatedVertexBuffers>>

DrawSpriteSourceFrame ==
  IsCall("drawSpriteSource") => UNCHANGED <<allocatedVertexBuffers, buffers, passEncoder>>

FrameEndFrame ==
  IsCall("frameEnd") => UNCHANGED <<batchDrawCallPerTexture, pipelinesPerTexture>>

\* what a frameEnd called again in this state would do
SecondFrameEnd ==
  FrameEndLoop(AllBatches(batchDrawCallPerTexture),
               [pool |-> allocatedVertexBuffers, buffers |-> buffers,
                used |-> <<>>, encoder |-> <<>>])

\* a draw up to the identity of its vertex buffer: what it binds and reads
DrawRead(d, bufs) == [d EXCEPT !.vertexBuffer = bufs[d.vertexBuffer]]

\* calling frameEnd again issues the frame's draws again, from buffers of the
\* pool with the same contents, and the pool ends at the size it had
SecondFrameEndRepeats ==
  AfterFrameEnd =>
    LET st == SecondFrameEnd
    IN  /\ Len(st.encoder) = Len(passEncoder)
        /\ \A d \in DOMAIN passEncoder :
             DrawRead(st.encoder[d], st.buffers) = DrawRead(passEncoder[d], buffers)
        /\ Len(ReturnToPool(st.pool, st.used)) = Len(allocatedVertexBuffers)
        /\ Len(st.buffers) = Len(buffers)

\* C30: framePass leaves the pipeline cache and the vertex-buffer pool as they
\* are; drawSpriteSource leaves the pool and its buffers as they are and
\* records no draw; frameEnd leaves the batch table and the pipeline cache as
\* they are, so that a frameEnd called again before the next framePass issues
\* the same draws and leaves the pool at its size.
C30_FrameConditionsOfThePhases ==
  /\ [][FramePassFrame]_vars
  /\ [][DrawSpriteSourceFrame]_vars
  /\ [][FrameEndFrame]_vars
  /\ []SecondFrameEndRepeats

\* the second frame has ended with draws from two textures' batches, its
\* framePass having found a pool and a pipeline cache filled by the first
C30_Witness ==
  /\ AfterFrameEnd
  /\ Len(frames) = 2
  /\ Len(passEncoder) >= 2
  /\ \A texture \in Textures : pipelinesPerTexture[TexId(texture)] # NoPipeline
  /\ Len(allocatedVertexBuffers) >= 2
====
